---- MODULE Spec2Model ----
(***************************************************************************)
(* Session-scoped OAuth token lifecycle of the stateful Spotify MCP        *)
(* server: the Token Store (sessionTokens), the Session/Transport Registry *)
(* (transports), the Auth Gate (getValidAccessToken / handleSpotifyTool)   *)
(* and the five registered tools, with Spotify as the environment.         *)
(***************************************************************************)
EXTENDS Integers, FiniteSets, Sequences, TLC

\* ---------------------------------------------------------------- bounds
\* ids randomUUID() may hand out (and values a browser may send as `state`)
SessionIds == {"s1", "s2"}
\* slots for concurrently in-flight tool invocations
Calls == {"c1", "c2"}
\* clock ticks after start-up
MaxTicks == 2
\* nested activations of cleanupSession the call stack has room for
MaxStack == 3
\* Date.now() at start-up and the clock's granularity, in milliseconds
StartTime == 1000
TickMs == 1000

\* values Spotify may put into a token response
AccessTokens == {"A1", "A2"}
ExchangedRefreshTokens == {"R1"}
RefreshedRefreshTokens == {"R2"}
ExpiresInSet == {1}

\* ------------------------------------------------------------- constants
Undefined == "undefined"
NoSession == "none"
NoResponse == 0
Tools == {"search-tracks", "get-current-user", "create-playlist",
          "add-tracks-to-playlist", "get-recommendations"}
\* an apiCall supplied by a caller of handleSpotifyTool other than the tools
StubCall == "stub"
HttpStatuses == {200, 401, 500}
Methods == {"POST", "GET", "DELETE"}
SeedCounts == {0, 1}
UriCounts == {1, 2}

VARIABLES
    transports,     \* Map sessionId -> transport
    sessionTokens,  \* Map sessionId -> {accessToken, refreshToken, expiresAt}
    now,            \* Date.now()
    used,           \* ids randomUUID() has produced so far
    pending,        \* `state` values whose /callback/spotify awaits the exchange
    calls,          \* in-flight and finished handleSpotifyTool invocations
    closes,         \* sessionId -> close() calls made on its transport
    lastRequest,    \* the last /mcp request that was answered 400
    lastCallback,   \* the last answer of /callback/spotify, where recorded
    variant,        \* which source file is the running program
    spotifyAuthInfo,\* scope -> {accessToken, refreshToken, clientId, clientSecret}
    requests        \* POST /mcp requests of the stateless variants

statelessVars == <<variant, spotifyAuthInfo, requests>>
statefulVars == <<transports, sessionTokens, now, used, pending, calls, closes,
                 lastRequest, lastCallback>>

vars == <<transports, sessionTokens, now, used, pending, calls, closes,
         lastRequest, lastCallback, statelessVars>>

\* ------------------------------------------------------------- map helpers
MapSet(m, k, v) == [x \in DOMAIN m \cup {k} |-> IF x = k THEN v ELSE m[x]]
MapDelete(m, k) == [x \in DOMAIN m \ {k} |-> m[x]]
MapHas(m, k) == k \in DOMAIN m

\* ------------------------------------------------------------ token store
\* expiresAt is a number of milliseconds; NaN (Date.now() + undefined * 1000)
\* is written -1, and an unset expiresAt 0
NaN == -1

\* `!x` for a number x: true of 0 and NaN
Falsy(x) == x = 0 \/ x = NaN

\* `a >= b` for numbers: false when an operand is NaN
AtLeast(a, b) == a # NaN /\ b # NaN /\ a >= b

isTokenExpired_late(tokens) ==
    IF tokens.expiresAt = 0 THEN TRUE ELSE now > tokens.expiresAt

isTokenExpired_truthy(tokens) == AtLeast(now, tokens.expiresAt)

\* isTokenExpired(tokens): `!tokens.expiresAt`, else Date.now() >= expiresAt
isTokenExpired(tokens) ==
    IF Falsy(tokens.expiresAt) THEN TRUE ELSE AtLeast(now, tokens.expiresAt)

\* exchangeCodeForTokens, on response.ok
exchangeCodeForTokens(data) ==
    [accessToken |-> data.access_token,
     refreshToken |-> data.refresh_token,
     expiresAt |-> now + data.expires_in * 1000]

refreshSpotifyToken_stale(tokens, data) ==
    [accessToken |-> tokens.accessToken,
     refreshToken |-> IF data.refresh_token # Undefined
                      THEN data.refresh_token ELSE tokens.refreshToken,
     expiresAt |-> now + data.expires_in * 1000]

refreshSpotifyToken_dropsRefresh(tokens, data) ==
    [accessToken |-> data.access_token,
     refreshToken |-> data.refresh_token,
     expiresAt |-> now + data.expires_in * 1000]

\* refreshSpotifyToken, on response.ok
refreshSpotifyToken(tokens, data) ==
    [accessToken |-> data.access_token,
     refreshToken |-> IF data.refresh_token # Undefined
                      THEN data.refresh_token ELSE tokens.refreshToken,
     expiresAt |-> now + data.expires_in * 1000]

ExchangeData ==
    [access_token : AccessTokens, refresh_token : ExchangedRefreshTokens,
     expires_in : ExpiresInSet]
RefreshData ==
    [access_token : AccessTokens,
     refresh_token : RefreshedRefreshTokens \cup {Undefined},
     expires_in : ExpiresInSet]

\* ----------------------------------------------------------------- results
AuthLink(sessionId) == [path |-> "/auth", session |-> sessionId]
NoLink == [path |-> "", session |-> NoSession]
NoMessage == ""
NoResult == [kind |-> "none", isError |-> FALSE, link |-> NoLink, text |-> NoMessage]
getSpotifyAuthUrl_nostate(sessionId) ==
    [path |-> "https://accounts.spotify.com/authorize", state |-> Undefined]

\* getSpotifyAuthUrl(sessionId): the authorization URL, `state: sessionId`
getSpotifyAuthUrl(sessionId) ==
    [path |-> "https://accounts.spotify.com/authorize", state |-> sessionId]

\* GET /auth?session=... : 400 without a session, else the page whose
\* button points at getSpotifyAuthUrl(session)
AuthPage(session) ==
    IF session = NoSession
    THEN [status |-> 400, href |-> NoLink]
    ELSE [status |-> 200, href |-> getSpotifyAuthUrl(session)]

AuthRequiredResult_error(sessionId) ==
    [kind |-> "authRequired", isError |-> TRUE, link |-> AuthLink(sessionId),
     text |-> "Spotify Authentication Required"]

AuthRequiredResult(sessionId) ==
    [kind |-> "authRequired", isError |-> FALSE, link |-> AuthLink(sessionId),
     text |-> "Spotify Authentication Required"]
AuthExpiredResult(sessionId) ==
    [kind |-> "authExpired", isError |-> TRUE, link |-> AuthLink(sessionId),
     text |-> "Spotify Authentication Expired"]
\* the generic error result: its text carries error.message
ApiErrorResult(message) ==
    [kind |-> "apiError", isError |-> TRUE, link |-> NoLink, text |-> message]
ToolResult == [kind |-> "ok", isError |-> FALSE, link |-> NoLink, text |-> "ok"]

AddedText_one(trackUris) == "Successfully added 1 track(s) to playlist!"

\* add-tracks-to-playlist: `Successfully added ${trackUris.length} track(s)`,
\* trackUris given by its length
AddedText(trackUris) ==
    "Successfully added " \o ToString(trackUris) \o " track(s) to playlist!"

\* what a tool's apiCall returns on a 2xx response
SuccessResult(call) ==
    IF call.tool = "add-tracks-to-playlist"
    THEN [ToolResult EXCEPT !.text = AddedText(call.seeds)]
    ELSE ToolResult

\* errors an apiCall may throw: `new Error(message)` carries no response
PlainError == [response |-> NoResponse, message |-> "At least one seed track is required"]
ResponseError(status) == [response |-> status, message |-> "Request failed"]
\* `Spotify API error: ${data.error?.message || "Unknown error"}`
UpstreamMessage(status) ==
    IF status = 401 THEN "Spotify API error: The access token expired"
    ELSE "Spotify API error: Unknown error"

\* ------------------------------------------------------------------- calls
NoTokens == [accessToken |-> Undefined, refreshToken |-> Undefined, expiresAt |-> 0]

Idle ==
    [pc |-> "idle", sid |-> NoSession, tool |-> "none", seeds |-> 0,
     sawRecord |-> FALSE, sawExpired |-> FALSE, tokens |-> NoTokens,
     refreshes |-> 0, refresh |-> "none", issued |-> Undefined,
     granted |-> Undefined,
     accessToken |-> Undefined, invoked |-> FALSE,
     meStatus |-> NoResponse, status |-> NoResponse, thrown |-> NoResponse,
     message |-> NoMessage, result |-> NoResult]

NoData == [access_token |-> Undefined, refresh_token |-> Undefined, expires_in |-> 0]

NoAnswer ==
    [status |-> NoResponse, state |-> Undefined, body |-> NoMessage,
     detail |-> NoMessage, upstream |-> NoData, at |-> 0]

NoRequest == [method |-> "none", sessionId |-> NoSession, status |-> NoResponse]

\* ------------------------------------------------ the stateless variants
\* spotify_mcp_http.js and spotify_mcp_http.ts answer every POST /mcp with a
\* server and a transport of its own; they keep credentials in
\* spotifyAuthInfo and test the access token with a request to /v1/me
Stateful == "part_000"
StatelessVariants == {"js", "ts"}
Requests == {"r1", "r2"}
\* JSON-RPC messages one POST body carries at most
MaxMessages == 2

\* spotifyAuthInfo is a local of createSpotifyMcpServer() in the .js file,
\* one per server and so one per request, and a module variable in the .ts
\* file
ModuleScope == "module"
Scopes == Requests \cup {ModuleScope}
Scope(r) == IF variant = "js" THEN r ELSE ModuleScope

Unset == ""
NoCredentials ==
    [accessToken |-> Unset, refreshToken |-> Unset,
     clientId |-> Unset, clientSecret |-> Unset]
\* arguments of set-spotify-credentials: z.string() admits the empty string
CredentialInputs ==
    [accessToken : {Unset, "A1"}, refreshToken : {Unset, "R1"},
     clientId : {"id"}, clientSecret : {"secret"}]
\* `access_token` of a refresh response
RefreshedAccessTokens == {Undefined, "A2"}

CredentialTools == {"set-spotify-credentials", "check-credentials-status"}
StatelessTools == Tools \cup CredentialTools

Unanswered == [isError |-> FALSE, text |-> NoMessage]
NoRequestYet ==
    [handler |-> "none", listener |-> FALSE, responseClosed |-> FALSE,
     cleanups |-> 0, left |-> 0,
     pc |-> "none", tool |-> "none", seeds |-> 0,
     probes |-> 0, probe |-> "none", refreshes |-> 0, api |-> 0,
     token |-> Unset, result |-> Unanswered,
     stored |-> NoCredentials, after |-> {}]

StatelessIdle ==
    /\ spotifyAuthInfo = [x \in Scopes |-> NoCredentials]
    /\ requests = [r \in Requests |-> NoRequestYet]

Init ==
    /\ variant = Stateful
    /\ StatelessIdle
    /\ transports = << >>
    /\ sessionTokens = << >>
    /\ now = StartTime
    /\ used = {}
    /\ pending = {}
    /\ calls = [c \in Calls |-> Idle]
    /\ closes = [s \in SessionIds |-> 0]
    /\ lastRequest = NoRequest
    /\ lastCallback = NoAnswer

Tick ==
    /\ now + TickMs <= StartTime + MaxTicks * TickMs
    /\ now' = now + TickMs
    /\ UNCHANGED <<statelessVars, transports, sessionTokens, used, pending, calls, closes, lastRequest, lastCallback>>

\* ------------------------------------------------------- session registry
\* the two maps and the count of close() calls, as cleanupSession sees them
Maps == [transports |-> transports, sessionTokens |-> sessionTokens,
         closes |-> closes]

RECURSIVE cleanupSessionIn(_, _, _)

\* transport.onclose: `if (transport.sessionId) cleanupSession(...)`
TransportOnclose(m, transport, depth) ==
    IF transport.sessionId # NoSession
    THEN cleanupSessionIn(m, transport.sessionId, depth)
    ELSE m

\* transport.close(): the transport closes and reports it through onclose,
\* in the same call stack
TransportClose(m, transport, depth) ==
    TransportOnclose([m EXCEPT !.closes[transport.sessionId] = @ + 1],
                     transport, depth)

\* cleanupSession(sessionId) as the depth-th nested activation. The transport
\* is closed while it is still registered; an activation beyond MaxStack
\* overflows the stack and does nothing, and the activation that called
\* close() goes on to its deletes.
cleanupSessionIn(m, sessionId, depth) ==
    IF depth > MaxStack
    THEN m
    ELSE LET closed ==
               IF MapHas(m.transports, sessionId)
               THEN [TransportClose(m, m.transports[sessionId], depth + 1)
                        EXCEPT !.transports = MapDelete(@, sessionId)]
               ELSE m
         IN  [closed EXCEPT !.sessionTokens = MapDelete(@, sessionId)]

cleanupSessionOn_earlyReturn(m, sessionId) ==
    IF MapHas(m.transports, sessionId)
    THEN [m EXCEPT !.transports = MapDelete(@, sessionId),
                   !.closes[sessionId] = @ + 1]
    ELSE [m EXCEPT !.sessionTokens = MapDelete(@, sessionId)]

\* cleanupSession(sessionId) called from a request handler, on the maps m
cleanupSessionOn(m, sessionId) == cleanupSessionIn(m, sessionId, 1)

cleanupSession_all(sessionId) ==
    LET m == cleanupSessionOn(Maps, sessionId)
    IN  /\ transports' = << >>
        /\ sessionTokens' = << >>
        /\ closes' = m.closes

\* cleanupSession(sessionId) as a step of the server
cleanupSession(sessionId) ==
    LET m == cleanupSessionOn(Maps, sessionId)
    IN  /\ transports' = m.transports
        /\ sessionTokens' = m.sessionTokens
        /\ closes' = m.closes

\* randomUUID(): the value it returns occurs nowhere in the server yet
Fresh(id) ==
    /\ id \notin used
    /\ ~MapHas(transports, id) /\ ~MapHas(sessionTokens, id)
    /\ id \notin pending
    /\ \A c \in Calls : calls[c].sid # id

CreateSession_shared(newSessionId) ==
    /\ Fresh(newSessionId)
    /\ used' = used \cup {newSessionId}
    /\ transports' = MapSet(transports, newSessionId,
                            IF transports = << >>
                            THEN [sessionId |-> newSessionId]
                            ELSE transports[CHOOSE s \in DOMAIN transports : TRUE])
    /\ UNCHANGED <<statelessVars, sessionTokens, now, pending, calls, closes, lastRequest, lastCallback>>

CreateSession_reuse(newSessionId) ==
    /\ ~MapHas(transports, newSessionId)
    /\ used' = used \cup {newSessionId}
    /\ transports' = MapSet(transports, newSessionId, [sessionId |-> newSessionId])
    /\ UNCHANGED <<statelessVars, sessionTokens, now, pending, calls, closes, lastRequest, lastCallback>>

\* POST /mcp without a session header, initialize body
CreateSession(newSessionId) ==
    /\ Fresh(newSessionId)
    /\ used' = used \cup {newSessionId}
    /\ transports' = MapSet(transports, newSessionId, [sessionId |-> newSessionId])
    /\ UNCHANGED <<statelessVars, sessionTokens, now, pending, calls, closes, lastRequest, lastCallback>>

\* DELETE /mcp with a known session header
DeleteMcp(sessionId) ==
    /\ MapHas(transports, sessionId)
    /\ cleanupSession(sessionId)
    /\ UNCHANGED <<statelessVars, now, used, pending, calls, lastRequest, lastCallback>>

TransportClosed_registryOnly(sessionId) ==
    /\ MapHas(transports, sessionId)
    /\ transports' = MapDelete(transports, sessionId)
    /\ closes' = [closes EXCEPT ![sessionId] = @ + 1]
    /\ UNCHANGED <<statelessVars, sessionTokens, now, used, pending, calls, lastRequest, lastCallback>>

\* transport.onclose fires (connection dropped, no DELETE)
TransportClosed(sessionId) ==
    /\ MapHas(transports, sessionId)
    /\ LET m == TransportOnclose(Maps, transports[sessionId], 1)
       IN  /\ transports' = m.transports
           /\ sessionTokens' = m.sessionTokens
           /\ closes' = m.closes
    /\ UNCHANGED <<statelessVars, now, used, pending, calls, lastRequest, lastCallback>>

\* the requests the three /mcp handlers turn down: a session header the
\* registry does not hold, or no header on anything but an initialize POST
Refused(method, sessionId, init) ==
    IF method = "POST"
    THEN \/ sessionId # NoSession /\ ~MapHas(transports, sessionId)
         \/ sessionId = NoSession /\ ~init
    ELSE sessionId = NoSession \/ ~MapHas(transports, sessionId)

McpRejected_adopts(method, sessionId, init) ==
    /\ Refused(method, sessionId, init)
    /\ sessionId # NoSession
    /\ transports' = MapSet(transports, sessionId, [sessionId |-> sessionId])
    /\ lastRequest' = [method |-> method, sessionId |-> sessionId, status |-> 200]
    /\ UNCHANGED <<statelessVars, sessionTokens, now, used, pending, calls, closes, lastCallback>>

McpRejected_cleans(method, sessionId, init) ==
    /\ Refused(method, sessionId, init)
    /\ lastRequest' = [method |-> method, sessionId |-> sessionId, status |-> 400]
    /\ sessionTokens' = MapDelete(sessionTokens, sessionId)
    /\ UNCHANGED <<statelessVars, transports, now, used, pending, calls, closes, lastCallback>>

\* POST, GET or DELETE /mcp that is turned down: 400, nothing else happens
McpRejected(method, sessionId, init) ==
    /\ Refused(method, sessionId, init)
    /\ lastRequest' = [method |-> method, sessionId |-> sessionId, status |-> 400]
    /\ UNCHANGED <<statelessVars, transports, sessionTokens, now, used, pending, calls, closes, lastCallback>>

\* ----------------------------------------------------------- OAuth callback
\* GET /callback/spotify?code=..&state=sessionId : exchange request sent
CallbackStart(sessionId) ==
    /\ sessionId \notin pending
    /\ pending' = pending \cup {sessionId}
    /\ UNCHANGED <<statelessVars, transports, sessionTokens, now, used, calls, closes, lastRequest, lastCallback>>

\* the try block once the exchange answered 2xx:
\* sessionTokens.set(sessionId, tokens), then the success page
CallbackTry(sessionId, data) ==
    /\ sessionId \in pending
    /\ pending' = pending \ {sessionId}
    /\ sessionTokens' = MapSet(sessionTokens, sessionId, exchangeCodeForTokens(data))
    /\ UNCHANGED <<statelessVars, transports, now, used, calls, closes, lastRequest>>

\* the catch block once the exchange was rejected: 500, nothing stored
CallbackCatch(sessionId) ==
    /\ sessionId \in pending
    /\ pending' = pending \ {sessionId}
    /\ UNCHANGED <<statelessVars, transports, sessionTokens, now, used, calls, closes, lastRequest>>

\* the exchange answered 2xx
CallbackExchangeOk(sessionId, data) ==
    /\ CallbackTry(sessionId, data)
    /\ UNCHANGED lastCallback

\* the exchange was rejected
CallbackExchangeRejected(sessionId) ==
    /\ CallbackCatch(sessionId)
    /\ UNCHANGED lastCallback

\* req.query of GET /callback/spotify; an absent parameter is Undefined
Queries ==
    [code : {Undefined, "code"}, state : SessionIds \cup {Undefined},
     error : {Undefined, "access_denied"}]

\* what the token endpoint answers when it rejects the exchange
ExchangeErrors ==
    [error : {"invalid_grant"},
     error_description : {"Invalid authorization code", Undefined}]

\* exchangeCodeForTokens on !response.ok: the message of the Error it throws
ExchangeFailure(err) ==
    IF err.error_description # Undefined THEN err.error_description ELSE err.error

\* the handler's two early returns: `if (error)`, `if (!code || !sessionId)`
CallbackInvalid(query) ==
    /\ query.error # Undefined \/ query.code = Undefined \/ query.state = Undefined
    /\ lastCallback' =
          IF query.error # Undefined
          THEN [NoAnswer EXCEPT !.status = 400, !.state = query.state,
                                !.body = "Authentication error",
                                !.detail = query.error, !.at = now]
          ELSE [NoAnswer EXCEPT !.status = 400, !.state = query.state,
                                !.body = "Missing authorization code or session ID",
                                !.at = now]
    /\ UNCHANGED <<statelessVars, transports, sessionTokens, now, used, pending, calls, closes,
                   lastRequest>>

\* GET /callback/spotify with any query, up to its first await
Callback(query) ==
    \/ CallbackInvalid(query)
    \/ /\ query.error = Undefined /\ query.code # Undefined
       /\ query.state # Undefined
       /\ CallbackStart(query.state)

CallbackAnswerOk_keepFirst(sessionId, data) ==
    /\ sessionId \in pending
    /\ pending' = pending \ {sessionId}
    /\ sessionTokens' = IF MapHas(sessionTokens, sessionId)
                        THEN sessionTokens
                        ELSE MapSet(sessionTokens, sessionId,
                                    exchangeCodeForTokens(data))
    /\ lastCallback' = [NoAnswer EXCEPT !.status = 200, !.state = sessionId,
                                        !.body = "Successfully Connected to Spotify!",
                                        !.upstream = data, !.at = now]
    /\ UNCHANGED <<statelessVars, transports, now, used, calls, closes, lastRequest>>

\* the exchange answered 2xx, the answer recorded
CallbackAnswerOk(sessionId, data) ==
    /\ CallbackTry(sessionId, data)
    /\ lastCallback' = [NoAnswer EXCEPT !.status = 200, !.state = sessionId,
                                        !.body = "Successfully Connected to Spotify!",
                                        !.upstream = data, !.at = now]

CallbackAnswerRejected_stores(sessionId, err) ==
    /\ CallbackTry(sessionId, [NoData EXCEPT !.access_token = "A1"])
    /\ lastCallback' = [NoAnswer EXCEPT !.status = 500, !.state = sessionId,
                                        !.body = "Authentication error: Token exchange failed",
                                        !.detail = ExchangeFailure(err), !.at = now]

\* the exchange was rejected, the answer recorded
CallbackAnswerRejected(sessionId, err) ==
    /\ CallbackCatch(sessionId)
    /\ lastCallback' = [NoAnswer EXCEPT !.status = 500, !.state = sessionId,
                                        !.body = "Authentication error: Token exchange failed",
                                        !.detail = ExchangeFailure(err), !.at = now]

\* ------------------------------------------------------------------ auth gate
getValidAccessToken_eager(sessionId) ==
    IF ~MapHas(sessionTokens, sessionId) THEN "null" ELSE "refresh"

\* getValidAccessToken up to its first await: what it decides from the store
getValidAccessToken(sessionId) ==
    IF ~MapHas(sessionTokens, sessionId) THEN "null"
    ELSE IF isTokenExpired(sessionTokens[sessionId]) THEN "refresh"
    ELSE "token"

NeedsAuth_never(accessToken) == FALSE

\* handleSpotifyTool: `if (!accessToken)`
NeedsAuth(accessToken) == accessToken = Undefined

\* handleSpotifyTool: `error.response?.status === 401`
IsUnauthorized(error) == error.response = 401

\* handleSpotifyTool's catch block: the result, and what it does to the store
Caught(call, error) ==
    [call EXCEPT !.pc = "done",
                 !.thrown = error.response,
                 !.message = error.message,
                 !.result = IF IsUnauthorized(error)
                            THEN AuthExpiredResult(call.sid)
                            ELSE ApiErrorResult(error.message)]
StoreAfterCatch_keep(sessionId, error) == sessionTokens

StoreAfterCatch_always(sessionId, error) == MapDelete(sessionTokens, sessionId)

StoreAfterCatch(sessionId, error) ==
    IF IsUnauthorized(error)
    THEN MapDelete(sessionTokens, sessionId)
    ELSE sessionTokens

\* what a tool's apiCall throws on a non-2xx response: new Error(message)
ToolError(status) == [response |-> NoResponse, message |-> UpstreamMessage(status)]

\* handleSpotifyTool once getValidAccessToken has returned accessToken:
\* the prompt, or apiCall(accessToken) run up to its first await
Resolved(call, accessToken) ==
    IF NeedsAuth(accessToken)
    THEN [call EXCEPT !.pc = "done", !.result = AuthRequiredResult(call.sid)]
    ELSE LET k == [call EXCEPT !.accessToken = accessToken, !.invoked = TRUE]
         IN  IF k.tool = "get-recommendations" /\ k.seeds = 0
             THEN Caught(k, PlainError)
             ELSE IF k.tool = "create-playlist"
             THEN [k EXCEPT !.pc = "apiMe"]
             ELSE [k EXCEPT !.pc = "api"]

\* handleSpotifyTool(sessionId, apiCall) from its call to the first await
handleSpotifyTool(c, sessionId, tool, seeds) ==
    LET call == [Idle EXCEPT !.sid = sessionId, !.tool = tool, !.seeds = seeds]
        outcome == getValidAccessToken(sessionId)
    IN  /\ calls[c].pc = "idle"
        /\ IF outcome = "null"
           THEN calls' = [calls EXCEPT ![c] = Resolved(call, Undefined)]
           ELSE IF outcome = "refresh"
           THEN calls' = [calls EXCEPT ![c] =
                    [call EXCEPT !.pc = "refreshing", !.sawRecord = TRUE,
                                 !.sawExpired = TRUE,
                                 !.tokens = sessionTokens[sessionId],
                                 !.refreshes = 1]]
           ELSE calls' = [calls EXCEPT ![c] =
                    Resolved([call EXCEPT !.sawRecord = TRUE],
                             sessionTokens[sessionId].accessToken)]
        /\ UNCHANGED <<statelessVars, transports, sessionTokens, now, used, pending, closes, lastRequest, lastCallback>>

\* POST /mcp with a known session header, tools/call for a registered tool
ToolCall(c, sessionId, tool, seeds) ==
    /\ MapHas(transports, sessionId)
    /\ \/ tool = "get-recommendations"
       \/ tool = "add-tracks-to-playlist" /\ seeds >= 1
       \/ seeds = 1
    /\ handleSpotifyTool(c, sessionId, tool, seeds)

RefreshOk_firstWins(c, data) ==
    LET call == calls[c]
        tokens == refreshSpotifyToken(call.tokens, data)
        unchanged == MapHas(sessionTokens, call.sid)
                        /\ sessionTokens[call.sid] = call.tokens
    IN  /\ call.pc = "refreshing"
        /\ sessionTokens' = IF unchanged
                            THEN MapSet(sessionTokens, call.sid, tokens)
                            ELSE sessionTokens
        /\ calls' = [calls EXCEPT ![c] =
               Resolved([call EXCEPT !.refresh = "ok", !.tokens = NoTokens,
                                     !.issued = data.access_token,
                                     !.granted = data.refresh_token],
                        tokens.accessToken)]
        /\ UNCHANGED <<statelessVars, transports, now, used, pending, closes, lastRequest, lastCallback>>

\* the refresh request answered 2xx
RefreshOk(c, data) ==
    LET call == calls[c]
        tokens == refreshSpotifyToken(call.tokens, data)
    IN  /\ call.pc = "refreshing"
        /\ sessionTokens' = MapSet(sessionTokens, call.sid, tokens)
        /\ calls' = [calls EXCEPT ![c] =
               Resolved([call EXCEPT !.refresh = "ok", !.tokens = NoTokens,
                                     !.issued = data.access_token,
                                     !.granted = data.refresh_token],
                        tokens.accessToken)]
        /\ UNCHANGED <<statelessVars, transports, now, used, pending, closes, lastRequest, lastCallback>>

RefreshRejected_retry(c) ==
    /\ calls[c].pc = "refreshing"
    /\ calls[c].refreshes < 3
    /\ calls' = [calls EXCEPT ![c] = [@ EXCEPT !.refreshes = @ + 1]]
    /\ UNCHANGED <<statelessVars, transports, sessionTokens, now, used, pending, closes, lastRequest, lastCallback>>

RefreshRejected_keep(c) ==
    LET call == calls[c]
    IN  /\ call.pc = "refreshing"
        /\ calls' = [calls EXCEPT ![c] =
               Resolved([call EXCEPT !.refresh = "failed", !.tokens = NoTokens],
                        Undefined)]
        /\ UNCHANGED <<statelessVars, transports, sessionTokens, now, used, pending, closes, lastRequest, lastCallback>>

\* the refresh request was rejected: refreshSpotifyToken throws
RefreshRejected(c) ==
    LET call == calls[c]
    IN  /\ call.pc = "refreshing"
        /\ sessionTokens' = MapDelete(sessionTokens, call.sid)
        /\ calls' = [calls EXCEPT ![c] =
               Resolved([call EXCEPT !.refresh = "failed", !.tokens = NoTokens],
                        Undefined)]
        /\ UNCHANGED <<statelessVars, transports, now, used, pending, closes, lastRequest, lastCallback>>

\* create-playlist: GET /v1/me answered; userResponse.ok is not looked at
ApiMeResponse(c, status) ==
    /\ calls[c].pc = "apiMe"
    /\ calls' = [calls EXCEPT ![c] = [@ EXCEPT !.pc = "api", !.meStatus = status]]
    /\ UNCHANGED <<statelessVars, transports, sessionTokens, now, used, pending, closes, lastRequest, lastCallback>>

\* a registered tool's request answered
ApiResponse(c, status) ==
    LET call == [calls[c] EXCEPT !.status = status]
    IN  /\ calls[c].pc = "api"
        /\ calls[c].tool \in Tools
        /\ IF status = 200
           THEN /\ calls' = [calls EXCEPT ![c] =
                        [call EXCEPT !.pc = "done", !.result = SuccessResult(call)]]
                /\ UNCHANGED sessionTokens
           ELSE /\ calls' = [calls EXCEPT ![c] = Caught(call, ToolError(status))]
                /\ sessionTokens' = StoreAfterCatch(call.sid, ToolError(status))
        /\ UNCHANGED <<statelessVars, transports, now, used, pending, closes, lastRequest, lastCallback>>

\* the tool result has been sent; the invocation is over
Return(c) ==
    /\ calls[c].pc = "done"
    /\ calls' = [calls EXCEPT ![c] = Idle]
    /\ UNCHANGED <<statelessVars, transports, sessionTokens, now, used, pending, closes, lastRequest, lastCallback>>

\* ------------------------------------------- handleSpotifyTool, any apiCall
\* handleSpotifyTool(sessionId, apiCall) called with a caller-supplied apiCall
StubToolCall(c, sessionId) ==
    /\ sessionId \in SessionIds
    /\ handleSpotifyTool(c, sessionId, StubCall, 1)

StubReturn(c) ==
    /\ calls[c].pc = "api"
    /\ calls[c].tool = StubCall
    /\ calls' = [calls EXCEPT ![c] = [@ EXCEPT !.pc = "done", !.result = ToolResult]]
    /\ UNCHANGED <<statelessVars, transports, sessionTokens, now, used, pending, closes, lastRequest, lastCallback>>

StubThrow(c, error) ==
    LET call == calls[c]
    IN  /\ calls[c].pc = "api"
        /\ calls[c].tool = StubCall
        /\ calls' = [calls EXCEPT ![c] = Caught(call, error)]
        /\ sessionTokens' = StoreAfterCatch(call.sid, error)
        /\ UNCHANGED <<statelessVars, transports, now, used, pending, closes, lastRequest, lastCallback>>

\* -------------------------------------------------------------- behaviours
\* one step of the server, for session ids S, invocation slots C and tools T
NextOver(S, C, T) ==
    \/ Tick
    \/ \E s \in S : CreateSession(s)
    \/ \E s \in S : DeleteMcp(s)
    \/ \E s \in S : TransportClosed(s)
    \/ \E s \in S : CallbackStart(s)
    \/ \E s \in S, d \in ExchangeData : CallbackExchangeOk(s, d)
    \/ \E s \in S : CallbackExchangeRejected(s)
    \/ \E c \in C, s \in S, t \in T, n \in SeedCounts : ToolCall(c, s, t, n)
    \/ \E c \in C, d \in RefreshData : RefreshOk(c, d)
    \/ \E c \in C : RefreshRejected(c)
    \/ \E c \in C, st \in HttpStatuses : ApiMeResponse(c, st)
    \/ \E c \in C, st \in HttpStatuses : ApiResponse(c, st)
    \/ \E c \in C : Return(c)

\* the server: two session ids, the five registered tools, one tool
\* invocation in flight at a time
Next == NextOver(SessionIds, {"c1"}, Tools)

Spec == Init /\ [][Next]_vars

\* the server under concurrent tool invocations of one session
ConcTools == {"get-current-user", "create-playlist"}

NextConc == NextOver({"s1"}, Calls, ConcTools)

SpecConc == Init /\ [][NextConc]_vars

\* the server, and handleSpotifyTool driven directly with a caller-supplied
\* apiCall for any session id
GateTools == {"get-current-user", "create-playlist", "get-recommendations"}

NextGate ==
    \/ NextOver(SessionIds, {"c1"}, GateTools)
    \/ \E s \in SessionIds : StubToolCall("c1", s)
    \/ StubReturn("c1")
    \/ \E e \in {PlainError, ResponseError(401), ResponseError(500)} :
          StubThrow("c1", e)

SpecGate == Init /\ [][NextGate]_vars

\* the steps of one tool invocation, for slots C and tools T
CallOver(S, C, T) ==
    \/ \E c \in C, s \in S, t \in T, n \in SeedCounts : ToolCall(c, s, t, n)
    \/ \E c \in C, d \in RefreshData : RefreshOk(c, d)
    \/ \E c \in C : RefreshRejected(c)
    \/ \E c \in C, st \in HttpStatuses : ApiResponse(c, st)
    \/ \E c \in C : Return(c)

\* the OAuth callback, for `state` values S
CallbackOver(S) ==
    \/ \E s \in S : CallbackStart(s)
    \/ \E s \in S, d \in ExchangeData : CallbackExchangeOk(s, d)
    \/ \E s \in S : CallbackExchangeRejected(s)

\* the server when no client sends DELETE: a session ends only when its
\* transport reports closure
DropTools == {"get-current-user"}

NextDrop ==
    \/ Tick
    \/ \E s \in SessionIds : CreateSession(s)
    \/ \E s \in SessionIds : TransportClosed(s)
    \/ CallbackOver(SessionIds)
    \/ CallOver(SessionIds, {"c1"}, DropTools)

SpecDrop == Init /\ [][NextDrop]_vars

\* the server with the /mcp requests whose session id is not registered
NextReg ==
    \/ Tick
    \/ \E s \in SessionIds : CreateSession(s)
    \/ \E s \in SessionIds : DeleteMcp(s)
    \/ \E s \in SessionIds : TransportClosed(s)
    \/ \E s \in SessionIds, m \in Methods : McpRejected(m, s, FALSE)
    \/ CallbackOver(SessionIds)
    \/ CallOver(SessionIds, {"c1"}, DropTools)

SpecReg == Init /\ [][NextReg]_vars

\* two sessions in use at once, each with a tool invocation of its own
NextIso ==
    \/ Tick
    \/ \E s \in SessionIds : CreateSession(s)
    \/ \E s \in SessionIds : DeleteMcp(s)
    \/ CallbackOver(SessionIds)
    \/ CallOver({"s1"}, {"c1"}, DropTools)
    \/ CallOver({"s2"}, {"c2"}, DropTools)

SpecIso == Init /\ [][NextIso]_vars

\* the OAuth callback under any query, its answers recorded
NextCallback ==
    \/ Tick
    \/ \E s \in SessionIds : CreateSession(s)
    \/ \E s \in SessionIds : DeleteMcp(s)
    \/ \E q \in Queries : Callback(q)
    \/ \E s \in SessionIds, d \in ExchangeData : CallbackAnswerOk(s, d)
    \/ \E s \in SessionIds, e \in ExchangeErrors : CallbackAnswerRejected(s, e)

SpecCallback == Init /\ [][NextCallback]_vars

\* the three /mcp handlers under any session header, with the OAuth callback
NextMcp ==
    \/ Tick
    \/ \E s \in SessionIds : CreateSession(s)
    \/ \E s \in SessionIds : DeleteMcp(s)
    \/ \E s \in SessionIds : TransportClosed(s)
    \/ \E s \in SessionIds \cup {NoSession}, m \in Methods, init \in BOOLEAN :
          McpRejected(m, s, init)
    \/ CallbackOver(SessionIds)

SpecMcp == Init /\ [][NextMcp]_vars

\* add-tracks-to-playlist called with one or two track URIs
NextTracks ==
    \/ Tick
    \/ \E s \in SessionIds : CreateSession(s)
    \/ \E s \in SessionIds : DeleteMcp(s)
    \/ CallbackOver(SessionIds)
    \/ \E s \in SessionIds, n \in UriCounts :
          ToolCall("c1", s, "add-tracks-to-playlist", n)
    \/ \E d \in RefreshData : RefreshOk("c1", d)
    \/ RefreshRejected("c1")
    \/ \E st \in HttpStatuses : ApiResponse("c1", st)
    \/ Return("c1")

SpecTracks == Init /\ [][NextTracks]_vars

\* isTokenExpired over the expiresAt values a record can hold: session s1
\* starts registered with a record whose expiresAt is drawn from ExpiryInputs
ExpiryInputs ==
    {0, NaN, StartTime, StartTime + TickMs, StartTime + MaxTicks * TickMs,
     StartTime + (MaxTicks + 1) * TickMs}

InitExpiry ==
    /\ variant = Stateful
    /\ StatelessIdle
    /\ transports = [s \in {"s1"} |-> [sessionId |-> s]]
    /\ \E e \in ExpiryInputs :
          sessionTokens = [s \in {"s1"} |->
              [accessToken |-> "A1", refreshToken |-> "R1", expiresAt |-> e]]
    /\ now = StartTime
    /\ used = {"s1"}
    /\ pending = {}
    /\ calls = [c \in Calls |-> Idle]
    /\ closes = [s \in SessionIds |-> 0]
    /\ lastRequest = NoRequest
    /\ lastCallback = NoAnswer

NextExpiry ==
    \/ Tick
    \/ CallOver({"s1"}, {"c1"}, DropTools)

SpecExpiry == InitExpiry /\ [][NextExpiry]_vars

\* ------------------------------------------- stateless variants: actions
NoAccessTokenMessage ==
    "No access token available. Please set credentials first using the set-spotify-credentials tool."
RefreshFailedMessage == "Failed to refresh access token"
FetchFailed == "fetch failed"
TokenError(message) == "Error with access token: " \o message

FailurePrefix(tool) ==
    CASE tool = "search-tracks" -> "Failed to search tracks: "
      [] tool = "get-current-user" -> "Failed to get user profile: "
      [] tool = "create-playlist" -> "Failed to create playlist: "
      [] tool = "add-tracks-to-playlist" -> "Failed to add tracks: "
      [] tool = "get-recommendations" -> "Failed to get recommendations: "
      [] OTHER -> "Error checking credentials: "

\* the catch block of a tool handler
Failed(tool, message) ==
    [isError |-> TRUE, text |-> FailurePrefix(tool) \o message]

CredentialsSet ==
    [isError |-> FALSE,
     text |-> "Spotify credentials set successfully. You can now use other Spotify tools."]
CredentialsNotSet ==
    [isError |-> FALSE,
     text |-> "Spotify credentials are not set. Please use the set-spotify-credentials tool."]
SeedRequired ==
    [isError |-> TRUE, text |-> "Error: At least one seed track is required"]
SpotifyOk == [isError |-> FALSE, text |-> "ok"]
SpotifyError == [isError |-> TRUE, text |-> "error"]

CredentialsMissing_accessOnly(info) == info.accessToken = Unset

\* the guard of getValidAccessToken
CredentialsMissing(info) ==
    info.accessToken = Unset \/ info.refreshToken = Unset

\* the guard of check-credentials-status
AnyCredentialMissing(info) ==
    \/ CredentialsMissing(info)
    \/ info.clientId = Unset
    \/ info.clientSecret = Unset

\* requests whose every message has been answered
Answered ==
    {r \in Requests : /\ requests[r].handler # "none"
                      /\ requests[r].left = 0
                      /\ requests[r].pc = "none"}

\* app.post("/mcp"): a server and a transport are created and connected and
\* handleRequest starts; the .js file registers cleanup on "close" before.
\* createSpotifyMcpServer() of the .js file starts with empty credentials
PostMcpStateless(r, messages) ==
    /\ variant \in StatelessVariants
    /\ requests[r].handler = "none"
    /\ requests' = [requests EXCEPT ![r] =
          [@ EXCEPT !.handler = "running",
                    !.listener = (variant = "js"),
                    !.left = messages,
                    !.after = Answered]]
    /\ spotifyAuthInfo' = [spotifyAuthInfo EXCEPT ![Scope(r)] =
          IF variant = "js" THEN NoCredentials ELSE @]
    /\ UNCHANGED <<variant, statefulVars>>

\* the next message of the body reaches its tool handler
CanHandle(r) ==
    /\ requests[r].handler \in {"running", "returned"}
    /\ requests[r].pc = "none"
    /\ requests[r].left > 0

Begun(r, tool, seeds) ==
    [requests[r] EXCEPT !.left = @ - 1, !.tool = tool, !.seeds = seeds,
                        !.probes = 0, !.probe = "none",
                        !.refreshes = 0, !.api = 0,
                        !.token = Unset, !.result = Unanswered]

SetSpotifyCredentials(r, input) ==
    /\ CanHandle(r)
    /\ spotifyAuthInfo' = [spotifyAuthInfo EXCEPT ![Scope(r)] = input]
    /\ requests' = [requests EXCEPT ![r] =
          [Begun(r, "set-spotify-credentials", 0)
              EXCEPT !.result = CredentialsSet, !.stored = input]]
    /\ UNCHANGED <<variant, statefulVars>>

\* a tool handler up to the first await of getValidAccessToken
ToolStart(r, tool, seeds) ==
    /\ CanHandle(r)
    /\ LET info == spotifyAuthInfo[Scope(r)]
           begun == Begun(r, tool, seeds)
       IN requests' = [requests EXCEPT ![r] =
            IF tool = "check-credentials-status" /\ AnyCredentialMissing(info)
            THEN [begun EXCEPT !.result = CredentialsNotSet]
            ELSE IF CredentialsMissing(info)
            THEN [begun EXCEPT !.result = Failed(tool, NoAccessTokenMessage)]
            ELSE [begun EXCEPT !.pc = "probing", !.probes = 1]]
    /\ UNCHANGED <<variant, spotifyAuthInfo, statefulVars>>

\* the handler's body once getValidAccessToken has returned accessToken
Body(req, accessToken) ==
    IF req.tool = "get-recommendations" /\ req.seeds = 0
    THEN [req EXCEPT !.pc = "none", !.token = accessToken,
                     !.result = SeedRequired]
    ELSE [req EXCEPT !.pc = "calling", !.token = accessToken, !.api = 1]

ProbeOutcomes == {"ok", "rejected", "throws"}

ProbeAnswered_refreshAnyway(r, outcome) ==
    /\ requests[r].pc = "probing"
    /\ requests' = [requests EXCEPT ![r] =
          [@ EXCEPT !.probe = outcome, !.pc = "refreshing",
                    !.refreshes = @ + 1]]
    /\ UNCHANGED <<variant, spotifyAuthInfo, statefulVars>>

\* the answer to GET /v1/me inside getValidAccessToken
ProbeAnswered(r, outcome) ==
    /\ requests[r].pc = "probing"
    /\ requests' = [requests EXCEPT ![r] =
          CASE outcome = "ok" ->
                  Body([@ EXCEPT !.probe = outcome],
                       spotifyAuthInfo[Scope(r)].accessToken)
            [] outcome = "rejected" ->
                  [@ EXCEPT !.probe = outcome, !.pc = "refreshing",
                            !.refreshes = @ + 1]
            [] OTHER ->
                  [@ EXCEPT !.probe = outcome, !.pc = "none",
                            !.result = Failed(requests[r].tool,
                                              TokenError(FetchFailed))]]
    /\ UNCHANGED <<variant, spotifyAuthInfo, statefulVars>>

RefreshOutcomes == RefreshedAccessTokens \cup {FetchFailed}

RefreshAnswered_clears(r, data) ==
    /\ requests[r].pc = "refreshing"
    /\ IF data \in {Undefined, FetchFailed}
       THEN /\ requests' = [requests EXCEPT ![r] =
                  [@ EXCEPT !.pc = "none",
                            !.result = Failed(requests[r].tool,
                                              TokenError(RefreshFailedMessage))]]
            /\ spotifyAuthInfo' = [spotifyAuthInfo EXCEPT
                  ![Scope(r)] = NoCredentials]
       ELSE /\ spotifyAuthInfo' = [spotifyAuthInfo EXCEPT
                  ![Scope(r)].accessToken = data]
            /\ requests' = [requests EXCEPT ![r] = Body(@, data)]
    /\ UNCHANGED <<variant, statefulVars>>

RefreshAnswered_rotates(r, data) ==
    /\ requests[r].pc = "refreshing"
    /\ IF data \in {Undefined, FetchFailed}
       THEN /\ requests' = [requests EXCEPT ![r] =
                  [@ EXCEPT !.pc = "none",
                            !.result = Failed(requests[r].tool,
                                              TokenError(RefreshFailedMessage))]]
            /\ UNCHANGED spotifyAuthInfo
       ELSE /\ spotifyAuthInfo' = [spotifyAuthInfo EXCEPT
                  ![Scope(r)].accessToken = data,
                  ![Scope(r)].refreshToken = "R2"]
            /\ requests' = [requests EXCEPT ![r] = Body(@, data)]
    /\ UNCHANGED <<variant, statefulVars>>

\* the answer to POST /api/token inside getValidAccessToken
RefreshAnswered(r, data) ==
    /\ requests[r].pc = "refreshing"
    /\ IF data \in {Undefined, FetchFailed}
       THEN /\ requests' = [requests EXCEPT ![r] =
                  [@ EXCEPT !.pc = "none",
                            !.result = Failed(requests[r].tool, TokenError(
                                IF data = FetchFailed THEN FetchFailed
                                ELSE RefreshFailedMessage))]]
            /\ UNCHANGED spotifyAuthInfo
       ELSE /\ spotifyAuthInfo' = [spotifyAuthInfo EXCEPT
                  ![Scope(r)].accessToken = data]
            /\ requests' = [requests EXCEPT ![r] = Body(@, data)]
    /\ UNCHANGED <<variant, statefulVars>>

\* the answer to the handler's own Spotify request
SpotifyAnswered(r, ok) ==
    /\ requests[r].pc = "calling"
    /\ requests' = [requests EXCEPT ![r] =
          [@ EXCEPT !.pc = "none",
                    !.result = IF ok THEN SpotifyOk ELSE SpotifyError]]
    /\ UNCHANGED <<variant, spotifyAuthInfo, statefulVars>>

\* `await transport.handleRequest(...)` returns; the .ts file registers its
\* "close" listener only now
HandleRequestReturns(r) ==
    /\ requests[r].handler = "running"
    /\ requests' = [requests EXCEPT ![r] =
          [@ EXCEPT !.handler = "returned",
                    !.listener = (@ \/ variant = "ts")]]
    /\ UNCHANGED <<variant, spotifyAuthInfo, statefulVars>>

\* connect or handleRequest throws: the catch block answers 500
HandleRequestThrows(r) ==
    /\ requests[r].handler = "running"
    /\ requests' = [requests EXCEPT ![r] = [@ EXCEPT !.handler = "threw"]]
    /\ UNCHANGED <<variant, spotifyAuthInfo, statefulVars>>

\* the response emits "close", after "error" when one occurred: each
\* registered listener runs transport.close() and server.close()
ResponseCloses(r, errored) ==
    /\ requests[r].handler # "none"
    /\ ~requests[r].responseClosed
    /\ errored => variant = "js"
    /\ requests' = [requests EXCEPT ![r] =
          [@ EXCEPT !.responseClosed = TRUE,
                    !.cleanups = IF ~requests[r].listener THEN 0
                                 ELSE IF errored THEN 2 ELSE 1]]
    /\ UNCHANGED <<variant, spotifyAuthInfo, statefulVars>>

InitStateless ==
    /\ variant \in StatelessVariants
    /\ StatelessIdle
    /\ transports = << >>
    /\ sessionTokens = << >>
    /\ now = StartTime
    /\ used = {}
    /\ pending = {}
    /\ calls = [c \in Calls |-> Idle]
    /\ closes = [s \in SessionIds |-> 0]
    /\ lastRequest = NoRequest
    /\ lastCallback = NoAnswer

StatelessOver(R, T, M) ==
    \/ \E r \in R, m \in M : PostMcpStateless(r, m)
    \/ \E r \in R, input \in CredentialInputs : SetSpotifyCredentials(r, input)
    \/ \E r \in R, tool \in T, seeds \in SeedCounts :
          /\ tool = "get-recommendations" \/ seeds = 1
          /\ ToolStart(r, tool, seeds)
    \/ \E r \in R, outcome \in ProbeOutcomes : ProbeAnswered(r, outcome)
    \/ \E r \in R, data \in RefreshOutcomes : RefreshAnswered(r, data)
    \/ \E r \in R, ok \in BOOLEAN : SpotifyAnswered(r, ok)
    \/ \E r \in R : HandleRequestReturns(r)
    \/ \E r \in R : HandleRequestThrows(r)
    \/ \E r \in R, errored \in BOOLEAN : ResponseCloses(r, errored)

\* one request, every tool
NextStateless ==
    StatelessOver({"r1"}, StatelessTools \ {"set-spotify-credentials"},
                  1..MaxMessages)

SpecStateless == InitStateless /\ [][NextStateless]_vars

\* two requests, one data tool
NextRequests == StatelessOver(Requests, {"get-current-user"}, 1..MaxMessages)

SpecRequests == InitStateless /\ [][NextRequests]_vars

\* Node delivers every event and settles every promise of a request
SpecRequestsFair == SpecRequests /\ WF_vars(NextRequests)

\* ------------------------------------------------------------------ claims
\* an invocation in slot c begins / apiCall is invoked / the refresh answers
Begins(c) == calls[c].pc = "idle" /\ calls'[c].pc # "idle"
Invokes(c) == ~calls[c].invoked /\ calls'[c].invoked
Destroyed(s) == s \in used /\ ~MapHas(transports, s)

\* C1: for a session id with no Token Record, handleSpotifyTool returns the
\* authentication prompt at once: getValidAccessToken yields null, apiCall is
\* not invoked and no refresh request is sent.
C1_NoRecordAuthRequired ==
    [][\A c \in Calls :
          (Begins(c) /\ ~MapHas(sessionTokens, calls'[c].sid)) =>
             /\ calls'[c].pc = "done"
             /\ calls'[c].result = AuthRequiredResult(calls'[c].sid)
             /\ ~calls'[c].invoked
             /\ calls'[c].refreshes = 0
             /\ sessionTokens' = sessionTokens]_vars

C1_Witness ==
    \E c \in Calls :
        /\ calls[c].pc = "done"
        /\ ~calls[c].sawRecord
        /\ calls[c].tool = StubCall
        /\ ~MapHas(transports, calls[c].sid)
        /\ calls[c].result.kind = "authRequired"

\* C2: whenever apiCall is invoked, the access token it gets is that of a
\* stored record with now < expiresAt, or the one a refresh that succeeded
\* inside this call returned; an expired record's token is never handed over.
C2_ExpiredNeverUsed ==
    [][\A c \in Calls :
          Invokes(c) =>
             \/ /\ calls[c].pc = "idle"
                /\ MapHas(sessionTokens, calls'[c].sid)
                /\ sessionTokens[calls'[c].sid].expiresAt # 0
                /\ now < sessionTokens[calls'[c].sid].expiresAt
                /\ calls'[c].accessToken = sessionTokens[calls'[c].sid].accessToken
             \/ /\ calls[c].pc = "refreshing"
                /\ calls'[c].refresh = "ok"
                /\ calls'[c].accessToken = calls'[c].issued]_vars

C2_Witness ==
    \E c \in Calls :
        /\ calls[c].invoked
        /\ calls[c].sawExpired
        /\ calls[c].refresh = "ok"
        /\ calls[c].accessToken = calls[c].issued

\* C3: when the apiCall given to handleSpotifyTool throws an error whose
\* response status is 401, the session's Token Record is removed and the
\* result is an error-flagged re-authentication prompt with that session's link.
C3_UnauthorizedInvalidates ==
    [][\A c \in Calls :
          (calls[c].pc = "api" /\ calls'[c].pc = "done" /\ calls'[c].thrown = 401) =>
             /\ ~MapHas(sessionTokens', calls[c].sid)
             /\ calls'[c].result.kind = "authExpired"
             /\ calls'[c].result.isError
             /\ calls'[c].result.link = AuthLink(calls[c].sid)]_vars

C3_Witness ==
    \E c \in Calls :
        /\ calls[c].pc = "done"
        /\ calls[c].thrown = 401
        /\ calls[c].invoked
        /\ calls[c].result.isError
        /\ ~MapHas(sessionTokens, calls[c].sid)

\* C4: for each registered tool, a 401 answer from Spotify to the tool's
\* request ends in the re-authentication prompt (and not in a generic error).
C4_Tool401Reauth ==
    \A c \in Calls :
        (calls[c].pc = "done" /\ calls[c].tool \in Tools /\ calls[c].status = 401) =>
            calls[c].result.kind = "authExpired"

\* C5: every session id with a Token Record has a Transport in the registry.
C5_NoOrphanedCredentials ==
    \A s \in SessionIds : MapHas(sessionTokens, s) => MapHas(transports, s)

\* C6: destroying a session removes its Transport and its Token Record, and
\* every token resolution for that id afterwards ends in the auth-required
\* outcome.
C6_DestroyedStaysUnauthenticated ==
    [][\A s \in SessionIds :
          /\ (MapHas(transports, s) /\ ~MapHas(transports', s)) =>
                 ~MapHas(sessionTokens', s)
          /\ \A c \in Calls :
                 (Begins(c) /\ calls'[c].sid = s /\ Destroyed(s)) =>
                     /\ getValidAccessToken(s) = "null"
                     /\ calls'[c].result.kind = "authRequired"]_vars

\* C7: a call that finds the stored record expired sends exactly one refresh
\* request, and the refresh's answer, success or failure, ends the resolution
\* with no further request.
C7_ExactlyOneRefresh ==
    [][\A c \in Calls :
          /\ (Begins(c) /\ MapHas(sessionTokens, calls'[c].sid)
                /\ (sessionTokens[calls'[c].sid].expiresAt = 0
                      \/ now >= sessionTokens[calls'[c].sid].expiresAt)) =>
                 (calls'[c].pc = "refreshing" /\ calls'[c].refreshes = 1)
          /\ (calls[c].pc = "refreshing" /\ calls'[c] # calls[c]) =>
                 /\ calls'[c].pc # "refreshing"
                 /\ calls'[c].refreshes = 1
                 /\ calls'[c].refresh \in {"ok", "failed"}
                 /\ (calls'[c].invoked \/ calls'[c].result.kind = "authRequired")
          /\ calls'[c].refreshes <= 1]_vars

C7_Witness ==
    \E c \in Calls :
        /\ calls[c].pc = "done"
        /\ calls[c].sawExpired
        /\ calls[c].refresh = "failed"
        /\ calls[c].refreshes = 1

\* C8: when the refresh of an expired record is rejected, the session's Token
\* Record is removed, the call ends in the auth-required prompt, apiCall is
\* not invoked and the session resolves as unauthenticated.
C8_RefreshFailureReverts ==
    [][\A c \in Calls :
          (calls[c].pc = "refreshing" /\ calls'[c].refresh = "failed") =>
             /\ ~MapHas(sessionTokens', calls[c].sid)
             /\ calls'[c].pc = "done"
             /\ calls'[c].result = AuthRequiredResult(calls[c].sid)
             /\ ~calls'[c].invoked]_vars

C8_Witness ==
    \E c \in Calls :
        /\ calls[c].pc = "done"
        /\ calls[c].refresh = "failed"
        /\ calls[c].result.kind = "authRequired"
        /\ MapHas(transports, calls[c].sid)
        /\ ~MapHas(sessionTokens, calls[c].sid)

\* C9: when the refresh of an expired record succeeds, the refreshed record is
\* stored under the same session id and apiCall gets the access token of the
\* refresh response; a later call that finds that record unexpired gets it too.
C9_RefreshedTokenUsed ==
    [][\A c \in Calls :
          /\ (calls[c].pc = "refreshing" /\ calls'[c].refresh = "ok") =>
                /\ MapHas(sessionTokens', calls[c].sid)
                /\ sessionTokens'[calls[c].sid].accessToken = calls'[c].issued
                /\ \A s \in DOMAIN sessionTokens' \ {calls[c].sid} :
                       MapHas(sessionTokens, s) /\ sessionTokens'[s] = sessionTokens[s]
                /\ calls'[c].invoked
                /\ calls'[c].accessToken = calls'[c].issued
          /\ (Begins(c) /\ calls'[c].invoked) =>
                calls'[c].accessToken = sessionTokens[calls'[c].sid].accessToken]_vars

C9_Witness ==
    \E c, d \in Calls :
        /\ c # d
        /\ calls[c].refresh = "ok"
        /\ calls[c].pc = "done"
        /\ calls[d].invoked
        /\ calls[d].refresh = "none"
        /\ calls[d].sid = calls[c].sid
        /\ calls[d].tool = "get-current-user"
        /\ calls[d].accessToken = calls[c].issued
        /\ MapHas(sessionTokens, calls[c].sid)
        /\ sessionTokens[calls[c].sid].accessToken = calls[c].issued

\* C10: when the stored record is not expired, the call gets the stored access
\* token directly: no refresh request is sent and the Token Store is unchanged.
C10_ValidTokenDirect ==
    [][\A c \in Calls :
          (Begins(c) /\ MapHas(sessionTokens, calls'[c].sid)
             /\ sessionTokens[calls'[c].sid].expiresAt # 0
             /\ now < sessionTokens[calls'[c].sid].expiresAt) =>
             /\ calls'[c].refreshes = 0
             /\ calls'[c].pc # "refreshing"
             /\ calls'[c].invoked
             /\ calls'[c].accessToken = sessionTokens[calls'[c].sid].accessToken
             /\ sessionTokens' = sessionTokens]_vars

C10_Witness ==
    \E c \in Calls :
        /\ calls[c].invoked
        /\ calls[c].sawRecord
        /\ ~calls[c].sawExpired
        /\ calls[c].refreshes = 0
        /\ calls[c].refresh = "none"
        /\ now > StartTime

\* C11: a failure thrown by apiCall that is not the unauthorized one (no
\* response status 401 on the error) comes back as an error-flagged result
\* whose text is the failure's message, and the Token Store is unchanged.
C11_OtherFailureGenericError ==
    [][\A c \in Calls :
          (calls[c].pc # "done" /\ calls'[c].pc = "done"
             /\ calls'[c].message # NoMessage /\ calls'[c].thrown # 401) =>
             /\ calls'[c].result.isError
             /\ calls'[c].result.kind = "apiError"
             /\ calls'[c].result.text = calls'[c].message
             /\ IF calls[c].pc = "refreshing"
                \* apiCall threw in the step that stored the refreshed record
                THEN /\ MapHas(sessionTokens', calls[c].sid)
                     /\ sessionTokens'[calls[c].sid].accessToken = calls'[c].issued
                     /\ \A s \in SessionIds \ {calls[c].sid} :
                            /\ MapHas(sessionTokens', s) = MapHas(sessionTokens, s)
                            /\ MapHas(sessionTokens, s) =>
                                   sessionTokens'[s] = sessionTokens[s]
                ELSE sessionTokens' = sessionTokens]_vars

C11_Witness ==
    \E c \in Calls :
        /\ calls[c].pc = "done"
        /\ calls[c].tool = StubCall
        /\ calls[c].thrown = 500
        /\ calls[c].result.isError
        /\ calls[c].result.text = "Request failed"
        /\ MapHas(sessionTokens, calls[c].sid)
        /\ sessionTokens[calls[c].sid].accessToken = calls[c].accessToken

\* C12: refresh is not serialized per session. A call that finds the record
\* expired while another call of the same session is already refreshing sends
\* its own refresh request, and each successful refresh overwrites the stored
\* record, so the record left is that of the refresh answered last.
C12_RefreshNotSerialized ==
    [][\A c, d \in Calls :
          (c # d) =>
             /\ (Begins(c) /\ calls[d].pc = "refreshing"
                   /\ calls[d].sid = calls'[c].sid
                   /\ MapHas(sessionTokens, calls'[c].sid)
                   /\ now >= sessionTokens[calls'[c].sid].expiresAt) =>
                    (calls'[c].pc = "refreshing" /\ calls'[c].refreshes = 1)
             /\ (calls[c].pc = "refreshing" /\ calls'[c].refresh = "ok"
                   /\ calls[d].sid = calls[c].sid /\ calls[d].refresh = "ok") =>
                    /\ MapHas(sessionTokens', calls[c].sid)
                    /\ sessionTokens'[calls[c].sid].accessToken = calls'[c].issued
                    /\ sessionTokens'[calls[c].sid].refreshToken \in
                          {calls[c].tokens.refreshToken} \cup RefreshedRefreshTokens]_vars

C12_Witness ==
    \E c, d \in Calls :
        /\ c # d
        /\ calls[c].sid = calls[d].sid
        /\ calls[c].refresh = "ok" /\ calls[d].refresh = "ok"
        /\ calls[c].sawExpired /\ calls[d].sawExpired
        /\ calls[c].issued # calls[d].issued
        /\ MapHas(sessionTokens, calls[c].sid)
        /\ sessionTokens[calls[c].sid].accessToken = calls[c].issued
        /\ sessionTokens[calls[c].sid].refreshToken = "R1"
        /\ calls[d].pc = "done"

\* session B's registry entry and Token Record are what they were
EntriesUnchanged(B) ==
    /\ MapHas(transports', B) = MapHas(transports, B)
    /\ MapHas(transports, B) => transports'[B] = transports[B]
    /\ MapHas(sessionTokens', B) = MapHas(sessionTokens, B)
    /\ MapHas(sessionTokens, B) => sessionTokens'[B] = sessionTokens[B]

\* C13: Token Records belong to their session. A step of a tool call of
\* session A (its start, its refresh, its API answer with or without a 401)
\* and the destruction of session A leave the transport and Token Record of
\* every other session as they were, and the token handed to A's apiCall is
\* the access token of A's own record.
C13_SessionIsolation ==
    [][/\ \A c \in Calls :
            (calls'[c] # calls[c]) =>
               LET A == IF Begins(c) THEN calls'[c].sid ELSE calls[c].sid
               IN  /\ \A B \in SessionIds \ {A} : EntriesUnchanged(B)
                   /\ Invokes(c) =>
                         /\ MapHas(sessionTokens', A)
                         /\ calls'[c].accessToken = sessionTokens'[A].accessToken
       /\ \A A \in SessionIds :
            (MapHas(transports, A) /\ ~MapHas(transports', A)) =>
               \A B \in SessionIds \ {A} : EntriesUnchanged(B)]_vars

C13_Witness ==
    /\ calls["c1"].sid = "s1" /\ calls["c1"].pc = "api"
    /\ MapHas(transports, "s1") /\ MapHas(sessionTokens, "s1")
    /\ calls["c1"].accessToken = sessionTokens["s1"].accessToken
    /\ calls["c2"].sid = "s2" /\ calls["c2"].refresh = "failed"
    /\ Destroyed("s2") /\ ~MapHas(sessionTokens, "s2")

\* C14: when a session's transport reports closure through onclose, with no
\* DELETE request, cleanup runs in the same step and removes both the
\* registry entry and the Token Record of that session.
C14_OncloseCleansUp ==
    [][\A s \in SessionIds :
          (MapHas(transports, s)
             /\ (closes'[s] # closes[s] \/ ~MapHas(transports', s))) =>
             /\ ~MapHas(transports', s)
             /\ ~MapHas(sessionTokens', s)]_vars

C14_Witness ==
    \E s \in SessionIds :
        /\ Destroyed(s)
        /\ closes[s] > 0
        /\ ~MapHas(sessionTokens, s)
        /\ calls["c1"].sid = s /\ calls["c1"].pc = "api"
        /\ calls["c1"].sawRecord

\* C15: cleanup runs exactly once per session: the transport is closed at
\* most once even though cleanupSession's transport.close() makes the
\* transport report closure, which calls cleanupSession again.
C15_ClosedAtMostOnce == \A s \in SessionIds : closes[s] <= 1

\* C16: cleanupSession is idempotent. Applied twice to a session id it leaves
\* the registry and the Token Store as one application does, and applied to
\* an id with neither a transport nor a Token Record it changes nothing.
C16_CleanupIdempotent ==
    \A s \in SessionIds :
        LET once == cleanupSessionOn(Maps, s)
            twice == cleanupSessionOn(once, s)
        IN  /\ twice.transports = once.transports
            /\ twice.sessionTokens = once.sessionTokens
            /\ ~MapHas(once.transports, s) /\ ~MapHas(once.sessionTokens, s)
            /\ (~MapHas(transports, s) /\ ~MapHas(sessionTokens, s)) =>
                  /\ once.transports = transports
                  /\ once.sessionTokens = sessionTokens

C16_Witness ==
    /\ MapHas(transports, "s1") /\ MapHas(sessionTokens, "s1")
    /\ Destroyed("s2") /\ closes["s2"] > 0
    /\ ~MapHas(sessionTokens, "s2")

\* C17: CLOSED is terminal. Once a session is destroyed its id never maps to
\* a transport again, no tool call is served for it, no further cleanup runs
\* for it, and a /mcp request carrying it is answered 400.
C17_ClosedIsTerminal ==
    [][\A s \in SessionIds :
          Destroyed(s) =>
             /\ ~MapHas(transports', s)
             /\ s \in used'
             /\ closes'[s] = closes[s]
             /\ \A c \in Calls : Begins(c) => calls'[c].sid # s
             /\ (lastRequest' # lastRequest /\ lastRequest'.sessionId = s) =>
                   lastRequest'.status = 400]_vars

C17_Witness ==
    \E s \in SessionIds :
        /\ Destroyed(s)
        /\ lastRequest = [method |-> "POST", sessionId |-> s, status |-> 400]

\* a step changes the Token Record of session s in one of these ways
Exchanged(s) == s \in pending /\ s \notin pending'
Refreshed(s) ==
    \E c \in Calls : /\ calls[c].pc = "refreshing" /\ calls[c].sid = s
                     /\ calls'[c].refresh = "ok"
RefreshFailed(s) ==
    \E c \in Calls : /\ calls[c].pc = "refreshing" /\ calls[c].sid = s
                     /\ calls'[c].refresh = "failed"
Unauthorized(s) ==
    \E c \in Calls : /\ calls[c].pc # "done" /\ calls[c].sid = s
                     /\ calls'[c].pc = "done" /\ calls'[c].thrown = 401

\* C18: the Token Record of a session appears only through a successful code
\* exchange, a successful refresh only replaces a record that is still
\* there, and a record is removed only by a failed refresh, a 401 report or
\* the destruction of its session; nothing else changes the Token Store.
C18_TokenLifecycle ==
    [][\A s \in SessionIds :
          /\ (~MapHas(sessionTokens, s) /\ MapHas(sessionTokens', s)) =>
                Exchanged(s)
          /\ (MapHas(sessionTokens, s) /\ MapHas(sessionTokens', s)
                /\ sessionTokens'[s] # sessionTokens[s]) =>
                (Exchanged(s) \/ Refreshed(s))
          /\ (MapHas(sessionTokens, s) /\ ~MapHas(sessionTokens', s)) =>
                \/ RefreshFailed(s)
                \/ Unauthorized(s)
                \/ MapHas(transports, s) /\ ~MapHas(transports', s)]_vars

\* C19: the result handleSpotifyTool returns when it resolved no usable
\* token (no record, or the refresh failed) is the authentication prompt as
\* a normal tool result: it is not marked isError.
C19_PromptIsNotAnError ==
    \A c \in Calls :
        (calls[c].pc = "done" /\ ~calls[c].invoked) =>
           /\ calls[c].result.kind = "authRequired"
           /\ calls[c].result.isError = FALSE
           /\ calls[c].result.text = "Spotify Authentication Required"

C19_Witness ==
    \E c, d \in Calls :
        /\ calls[c].pc = "done" /\ calls[c].refresh = "failed"
        /\ ~calls[c].invoked /\ ~calls[c].result.isError
        /\ calls[d].pc = "done" /\ ~calls[d].sawRecord
        /\ ~calls[d].invoked /\ ~calls[d].result.isError

C21_RefreshKeepsRefreshToken ==
    [][\A c \in Calls :
          (calls[c].pc = "refreshing" /\ calls'[c].refresh = "ok") =>
             LET prior == calls[c].tokens
                 stored == sessionTokens'[calls[c].sid]
             IN  /\ stored.accessToken = calls'[c].issued
                 /\ stored.refreshToken =
                       IF calls'[c].granted = Undefined
                       THEN prior.refreshToken
                       ELSE calls'[c].granted
                 /\ \E e \in ExpiresInSet : stored.expiresAt = now + e * 1000]_vars

C21_Witness ==
    \E c \in Calls :
        /\ calls[c].refresh = "ok"
        /\ calls[c].granted = Undefined
        /\ MapHas(sessionTokens, calls[c].sid)
        /\ sessionTokens[calls[c].sid].accessToken = calls[c].issued
        /\ sessionTokens[calls[c].sid].refreshToken = "R1"
        /\ sessionTokens[calls[c].sid].expiresAt > now

\* C22: when the callback for state = s has exchanged the code, the Token
\* Store's record for s has the access token (and refresh token) of the
\* exchange response and expires expires_in seconds after the time the
\* response was handled, whatever record s had before; other records stay.
C22_CallbackRoundTrip ==
    [][\A s \in SessionIds :
          (s \in pending /\ s \notin pending' /\ lastCallback'.status = 200) =>
             /\ lastCallback'.state = s
             /\ MapHas(sessionTokens', s)
             /\ sessionTokens'[s].accessToken = lastCallback'.upstream.access_token
             /\ sessionTokens'[s].refreshToken = lastCallback'.upstream.refresh_token
             /\ sessionTokens'[s].expiresAt =
                   lastCallback'.at + lastCallback'.upstream.expires_in * 1000
             /\ lastCallback'.at = now
             /\ \A B \in SessionIds \ {s} : EntriesUnchanged(B)]_vars

C22_Witness ==
    \E s \in SessionIds :
        /\ lastCallback.status = 200 /\ lastCallback.state = s
        /\ lastCallback.upstream.access_token = "A2"
        /\ lastCallback.at > StartTime
        /\ MapHas(sessionTokens, s)
        /\ sessionTokens[s].accessToken = "A2"
        /\ sessionTokens[s].expiresAt = lastCallback.at + 1000

\* C23: the callback fails visibly and stores nothing when it cannot
\* complete: 400 with an error parameter or with code or state missing, 500
\* with the upstream error description when the exchange is rejected, the
\* Token Store unchanged in each case.
C23_CallbackFailsVisibly ==
    [][/\ (lastCallback' # lastCallback /\ pending' = pending) =>
             /\ lastCallback'.status = 400
             /\ lastCallback'.body \in
                   {"Authentication error",
                    "Missing authorization code or session ID"}
             /\ sessionTokens' = sessionTokens
       /\ \A s \in SessionIds :
            (s \in pending /\ s \notin pending' /\ lastCallback'.status # 200) =>
               /\ lastCallback'.status = 500
               /\ lastCallback'.state = s
               /\ lastCallback'.detail \in
                     {"Invalid authorization code", "invalid_grant"}
               /\ sessionTokens' = sessionTokens]_vars

C23_Witness ==
    /\ lastCallback.status = 500
    /\ lastCallback.detail = "Invalid authorization code"
    /\ lastCallback.state = "s1"
    /\ ~MapHas(sessionTokens, "s1")
    /\ pending = {}

\* C24: a registry entry appears exactly in the step that serves an
\* initialize POST without a session header: the step adds one entry, keyed
\* by the id randomUUID() has just produced and bound to a new transport,
\* the new session has no Token Record, and the Token Store is not touched.
C24_CreatedOnlyByInitialize ==
    [][\A s \in SessionIds :
          /\ (~MapHas(transports, s) /\ MapHas(transports', s)) =>
                /\ s \notin used /\ used' = used \cup {s}
                /\ DOMAIN transports' = DOMAIN transports \cup {s}
                /\ transports'[s].sessionId = s
                /\ \A t \in DOMAIN transports : transports'[t] = transports[t]
                /\ ~MapHas(sessionTokens', s)
                /\ sessionTokens' = sessionTokens
                /\ lastRequest' = lastRequest
          /\ (s \in used' /\ s \notin used) => MapHas(transports', s)]_vars

C24_Witness ==
    /\ MapHas(transports, "s1") /\ ~MapHas(sessionTokens, "s1")
    /\ MapHas(transports, "s2") /\ MapHas(sessionTokens, "s2")
    /\ lastRequest = [method |-> "POST", sessionId |-> NoSession, status |-> 400]
    /\ used = {"s1", "s2"}

\* C25: a POST with an unknown session id, a POST without a session id that
\* is not an initialize request, and a GET or DELETE with a missing or
\* unknown session id are answered 400 and change neither the registry nor
\* the Token Store.
C25_UnknownSessionRejected ==
    [][(lastRequest' # lastRequest) =>
          /\ lastRequest'.status = 400
          /\ lastRequest'.sessionId = NoSession
                \/ ~MapHas(transports, lastRequest'.sessionId)
          /\ transports' = transports
          /\ sessionTokens' = sessionTokens
          /\ used' = used /\ closes' = closes /\ calls' = calls]_vars

C25_Witness ==
    /\ lastRequest = [method |-> "DELETE", sessionId |-> "s1", status |-> 400]
    /\ Destroyed("s1") /\ MapHas(sessionTokens, "s1")
    /\ MapHas(transports, "s2")

\* C26: registry keys are generator-assigned and unique: every key is an id
\* randomUUID() produced, never a value a client supplied, every transport
\* is registered under its own session id, and no two keys map to the same
\* transport.
C26_KeysGeneratedAndUnique ==
    /\ \A s \in DOMAIN transports :
          /\ s \in used
          /\ transports[s].sessionId = s
          /\ \A t \in DOMAIN transports : (transports[t] = transports[s]) => t = s

C26_Witness ==
    /\ DOMAIN transports = {"s1", "s2"}
    /\ transports["s1"] # transports["s2"]
    /\ lastRequest = [method |-> "POST", sessionId |-> "s1", status |-> 400]

\* C27: no upstream failure is swallowed: when a request a tool makes,
\* the /v1/me lookup of create-playlist included, is answered non-2xx, the
\* tool stops there, sends no dependent request and returns an error-flagged
\* result with the upstream message.
C27_NoUpstreamFailureSwallowed ==
    [][\A c \in Calls :
          /\ (calls[c].pc = "api" /\ calls[c].tool \in Tools
                /\ calls'[c].status \notin {NoResponse, 200}) =>
                /\ calls'[c].pc = "done"
                /\ calls'[c].result.isError
                /\ calls'[c].result.text = UpstreamMessage(calls'[c].status)
          /\ (calls[c].pc = "apiMe"
                /\ calls'[c].meStatus \notin {NoResponse, 200}) =>
                /\ calls'[c].pc = "done"
                /\ calls'[c].result.isError]_vars

\* C28: a get-recommendations call with no seed track never sends a
\* recommendations request and is answered with an error result, whether or
\* not the session is authenticated.
C28_SeedsRequired ==
    \A c \in Calls :
        (calls[c].tool = "get-recommendations" /\ calls[c].seeds = 0) =>
           /\ calls[c].pc # "api"
           /\ calls[c].pc = "done" => calls[c].result.isError

\* C29: when add-tracks-to-playlist succeeds the result text reports the
\* number of track URIs the call supplied (two URIs give "2"), and when
\* Spotify rejects the request the result is an error, never a success.
C29_AddedCountIsSupplied ==
    [][\A c \in Calls :
          (calls[c].pc = "api" /\ calls[c].tool = "add-tracks-to-playlist"
             /\ calls'[c].pc = "done") =>
             IF calls'[c].status = 200
             THEN /\ ~calls'[c].result.isError
                  /\ calls[c].seeds = 1 =>
                        calls'[c].result.text =
                           "Successfully added 1 track(s) to playlist!"
                  /\ calls[c].seeds = 2 =>
                        calls'[c].result.text =
                           "Successfully added 2 track(s) to playlist!"
                  /\ calls[c].seeds \in {1, 2}
             ELSE /\ calls'[c].result.isError
                  /\ calls'[c].result.kind # "ok"
                  /\ calls'[c].result.text = UpstreamMessage(calls'[c].status)]_vars

C29_Witness ==
    /\ calls["c1"].tool = "add-tracks-to-playlist"
    /\ calls["c1"].seeds = 2
    /\ calls["c1"].pc = "done" /\ calls["c1"].status = 200
    /\ calls["c1"].result.text = "Successfully added 2 track(s) to playlist!"

\* C30: isTokenExpired(record) is true exactly when expiresAt is unset or
\* otherwise falsy (0, NaN) or now >= expiresAt; a record is already expired
\* at the instant now equals expiresAt.
C30_ExpiredExactlyWhen ==
    [][\A c \in Calls :
          (Begins(c) /\ MapHas(sessionTokens, calls'[c].sid)) =>
             LET expiresAt == sessionTokens[calls'[c].sid].expiresAt
             IN  /\ calls'[c].sawRecord
                 /\ calls'[c].sawExpired =
                       \/ expiresAt = 0
                       \/ expiresAt = NaN
                       \/ expiresAt > 0 /\ now >= expiresAt
                 /\ calls'[c].sawExpired = (calls'[c].pc = "refreshing")]_vars

C30_Witness ==
    /\ calls["c1"].pc = "refreshing"
    /\ calls["c1"].sawExpired
    /\ calls["c1"].tokens.expiresAt = now
    /\ now > StartTime

\* C31: when a session is destroyed while a token refresh or a code exchange
\* for its id is in flight, the completion of that operation does not put a
\* Token Record for the destroyed session into the Token Store.
C31_NoRecordAfterDestruction ==
    [][/\ \A c \in Calls :
            (calls[c].pc = "refreshing" /\ calls'[c].refresh = "ok"
               /\ Destroyed(calls[c].sid)) =>
               ~MapHas(sessionTokens', calls[c].sid)
       /\ \A s \in SessionIds :
            (s \in pending /\ s \notin pending' /\ Destroyed(s)) =>
               ~MapHas(sessionTokens', s)]_vars

\* C32: a failed refresh removes only the record it tried to refresh: a
\* record stored for the session meanwhile, by a concurrent refresh or by
\* the OAuth callback, is still there after the failure.
C32_FailedRefreshKeepsNewer ==
    [][\A c \in Calls :
          (calls[c].pc = "refreshing" /\ calls'[c].refresh = "failed"
             /\ MapHas(sessionTokens, calls[c].sid)
             /\ sessionTokens[calls[c].sid] # calls[c].tokens) =>
             /\ MapHas(sessionTokens', calls[c].sid)
             /\ sessionTokens'[calls[c].sid] = sessionTokens[calls[c].sid]]_vars

\* ------------------------------------------- claims: stateless variants
\* a step in which request r's getValidAccessToken receives the probe's answer
ProbeStep(r) == requests[r].pc = "probing" /\ requests'[r].pc # "probing"

\* a step in which request r's getValidAccessToken receives the refresh answer
RefreshStep(r) == requests[r].pc = "refreshing" /\ requests'[r].pc # "refreshing"

\* a step in which request r starts the handler of a data tool
DataToolStep(r) ==
    /\ requests'[r].left < requests[r].left
    /\ requests'[r].tool \in Tools

\* C33: getValidAccessToken of the probing variants sends a refresh request
\* only after the /v1/me probe was answered non-OK, sends at most one refresh
\* per call, and when the probe is answered OK returns the current access
\* token without a refresh
C33_RefreshOnlyAfterRejectedProbe ==
    [][\A r \in Requests :
         /\ requests'[r].refreshes > requests[r].refreshes =>
               /\ ProbeStep(r)
               /\ requests[r].probes = 1
               /\ requests'[r].probe = "rejected"
         /\ requests'[r].refreshes <= 1
         /\ (ProbeStep(r) /\ requests'[r].probe = "ok") =>
               /\ requests'[r].refreshes = 0
               /\ requests'[r].token = spotifyAuthInfo[Scope(r)].accessToken
               /\ spotifyAuthInfo' = spotifyAuthInfo]_vars

C33_RefreshedAfterRejectedProbe ==
    \E r \in Requests :
        /\ requests[r].probe = "rejected"
        /\ requests[r].refreshes = 1
        /\ requests[r].token = "A2"
        /\ spotifyAuthInfo[Scope(r)].accessToken = "A2"

\* C34: once set-spotify-credentials has returned success in a request that
\* was answered, a data tool called in a later request finds those
\* credentials (it goes on to probe with them) and does not fail with
\* "No access token available"
C34_LaterRequestResolvesCredentials ==
    [][\A r \in Requests :
         (/\ DataToolStep(r)
          /\ requests[r].stored = NoCredentials
          /\ \E earlier \in requests[r].after :
                ~CredentialsMissing(requests[earlier].stored)) =>
            /\ requests'[r].result #
                  Failed(requests'[r].tool, NoAccessTokenMessage)
            /\ requests'[r].pc = "probing"]_vars

\* C35: every server/transport pair created for a POST /mcp request is
\* eventually closed once the request's response has closed, also when the
\* response closes before transport.handleRequest returns
C35_ClosedOnceResponseCloses ==
    \A r \in Requests :
        [](requests[r].responseClosed => <>(requests[r].cleanups > 0))

\* C36: while the access token or the refresh token is unset, each of the
\* five data tools returns a result flagged isError and sends no request to
\* Spotify: no probe, no refresh, no Web API call
C36_UnsetCredentialsSendNothing ==
    [][\A r \in Requests :
         (/\ DataToolStep(r)
          /\ \/ spotifyAuthInfo[Scope(r)].accessToken = Unset
             \/ spotifyAuthInfo[Scope(r)].refreshToken = Unset) =>
            /\ requests'[r].pc = "none"
            /\ requests'[r].result.isError
            /\ requests'[r].result =
                  Failed(requests'[r].tool, NoAccessTokenMessage)
            /\ requests'[r].probes = 0
            /\ requests'[r].refreshes = 0
            /\ requests'[r].api = 0
            /\ spotifyAuthInfo' = spotifyAuthInfo]_vars

\* an access token is stored, the refresh token is not, and a data tool has
\* answered with the error
C36_RefusedWithoutRefreshToken ==
    \E r \in Requests :
        /\ requests[r].tool \in Tools
        /\ requests[r].pc = "none"
        /\ requests[r].result = Failed(requests[r].tool, NoAccessTokenMessage)
        /\ requests[r].probes = 0
        /\ spotifyAuthInfo[Scope(r)].accessToken # Unset
        /\ spotifyAuthInfo[Scope(r)].refreshToken = Unset

\* C37: a refresh changes at most the stored access token: when the refresh
\* response carries no access_token (or the request fails) clientId,
\* clientSecret, accessToken and refreshToken all stay as they are, and when
\* it carries one only accessToken of the caller's store is replaced
C37_RefreshChangesOnlyAccessToken ==
    [][\A r \in Requests :
         /\ (ProbeStep(r) \/ RefreshStep(r)) =>
               \A x \in Scopes :
                  /\ spotifyAuthInfo'[x].clientId = spotifyAuthInfo[x].clientId
                  /\ spotifyAuthInfo'[x].clientSecret =
                        spotifyAuthInfo[x].clientSecret
                  /\ spotifyAuthInfo'[x].refreshToken =
                        spotifyAuthInfo[x].refreshToken
         /\ (RefreshStep(r) /\ requests'[r].token = Unset) =>
               spotifyAuthInfo' = spotifyAuthInfo
         /\ (RefreshStep(r) /\ requests'[r].token # Unset) =>
               spotifyAuthInfo' = [spotifyAuthInfo EXCEPT
                  ![Scope(r)].accessToken = requests'[r].token]]_vars

\* a refresh has failed and the credentials are still stored
C37_FailedRefreshKeepsCredentials ==
    \E r \in Requests :
        /\ requests[r].refreshes = 1
        /\ requests[r].pc = "none"
        /\ requests[r].result =
              Failed(requests[r].tool, TokenError(RefreshFailedMessage))
        /\ spotifyAuthInfo[Scope(r)] =
              [accessToken |-> "A1", refreshToken |-> "R1",
               clientId |-> "id", clientSecret |-> "secret"]
====
